---- MODULE Spec2Model ----
(***************************************************************************)
(* RB-OKVS (random-band oblivious key-value store) and the volume-hiding   *)
(* encrypted multi-map built on it: src/src/okvs.rs, src/src/utils.rs,     *)
(* src/src/types.rs, src/src/emm.rs.                                       *)
(*                                                                         *)
(* A U256 is the set of its set bit positions (0 = least significant), an  *)
(* OkvsValue<N> the set of its set bit positions: XOR is the symmetric     *)
(* difference, a shift moves positions and drops those outside 0..255.     *)
(***************************************************************************)
EXTENDS Integers, Sequences, FiniteSets, TLC

VARIABLES
    kv_given, \* the kv_count RbOkvs::new was called with
    okvs,    \* the RbOkvs struct: [columns, band_width], or NoOkvs
    pairs,   \* the Vec<Pair<K, V>> handed to the last encode
    enc,     \* what the last encode returned: Ok(x) | ZeroRow(i) | Panic
    xorlog,  \* the calls of xor made by the last simple_gauss
    dec,     \* what the last decode returned
    probe,   \* the last result of a function called on its own
    osrng,   \* the two keys OsRng yields when next asked for them
    vkind,   \* the EmmV implementation of the multi-map: "u64" or "str"
    emmin,   \* the input of the last setup
    cs,      \* the ClientState the last setup returned
    server,  \* the encoding the server holds and answers queries from
    qry      \* the last query and what it returned

okvsvars == <<kv_given, okvs, pairs, enc, xorlog, dec>>
emmvars == <<osrng, vkind, emmin, cs, server, qry>>
vars == <<okvsvars, probe, emmvars>>

----------------------------------------------------------------------------
(* Bounds of the model. *)

\* longest input of encode
MaxPairs == 4
\* most entries of an input of setup, most values of an entry
MaxEntries == 2
MaxSlots == 2
\* largest kv_count handed to RbOkvs::new
MaxKvCount == 300

----------------------------------------------------------------------------
(* Program constants. *)

\* okvs.rs LAMBDA (a reserved word of TLA+)
Lambda == 40
\* EPSILON = 0.1: 1 + EPSILON = EpsNum / EpsDen
EpsNum == 11
EpsDen == 10
\* sp_core::U256
U256_BITS == 256
\* Blake2b512 digest length in bytes
DIGEST_BYTES == 64

----------------------------------------------------------------------------
(* U256 *)

U256 == 0 .. (U256_BITS - 1)

SetMin(S) == CHOOSE m \in S : \A t \in S : m <= t
SetMax(S) == CHOOSE m \in S : \A t \in S : m >= t

\* f as an explicit table: TLC keeps [k \in S |-> e] unevaluated and would
\* evaluate e again at every application
Table(f) == f @@ <<>>

\* U256::trailing_zeros: 256 for zero
trailing_zeros(u) == IF u = {} THEN U256_BITS ELSE SetMin(u)

\* U256::bits: the position of the highest set bit, plus one
bits(u) == IF u = {} THEN 0 ELSE SetMax(u) + 1

\* U256 << d and U256 >> d: bits shifted out are dropped
Shl(u, d) == {t + d : t \in {s \in u : s + d < U256_BITS}}
Shr(u, d) == {t - d : t \in {s \in u : s >= d}}

\* U256 ^ U256, and OkvsValue::xor / in_place_xor
BitXor(a, b) == (a \ b) \cup (b \ a)

\* utils.rs bit: MASK[index - 192] is out of bounds from index 256 on
bit(u, index) == index \in u

\* utils.rs xor
xor(a, b, start_a, start_b) ==
    IF start_a = start_b THEN BitXor(b, a)
    ELSE IF start_a < start_b
         THEN Shl(BitXor(Shr(b, start_b - start_a), a), start_b - start_a)
         ELSE Shr(BitXor(Shl(b, start_a - start_b), a), start_a - start_b)

----------------------------------------------------------------------------
(* OkvsValue *)

\* OkvsV::default
ValueDefault == {}

\* utils.rs inner_product: the XOR of x[i] over the set bits i of m. Reading
\* x[i] past the end of the slice panics; every word loop reads only at set
\* bits, and the highest set bit is bits(m) - 1.
inner_product_panics(m, xlen) == m # {} /\ SetMax(m) >= xlen

inner_product(m, x, from) ==
    LET U == UNION {x[from + i] : i \in m}
    IN  {e \in U : Cardinality({i \in m : e \in x[from + i]}) % 2 = 1}

----------------------------------------------------------------------------
(* The hash primitives (Blake2b, an external collaborator) on the sample   *)
(* keys. A table row stands for the digests of one OkvsKey: the u64 that   *)
(* blake2b::<8> yields, and the set bits of its Blake2b512 digest (bit t   *)
(* of byte b is position 8b + t, the position U256::from_little_endian     *)
(* gives it).                                                              *)

Blake2b8 == <<0, 67, 57, 62, 1, 3>>
Blake2b512 == <<{}, {57}, {5, 199}, {194}, {1, 2, 5, 9}, {3, 4, 10}>>

\* the sample OkvsKeys
Keys == DOMAIN Blake2b512

\* utils.rs hash: the first to_bytes_size bytes of the Blake2b512 digest;
\* past 64 bytes the digest is repeated and the last copy cut
hash(key, to_bytes_size) ==
    IF to_bytes_size <= DIGEST_BYTES
    THEN {j \in Blake2b512[key] : j < 8 * to_bytes_size}
    ELSE {j \in 0 .. (8 * to_bytes_size - 1) :
             (j % (8 * DIGEST_BYTES)) \in Blake2b512[key]}

Panic == [tag |-> "Panic"]
Ret(v) == [tag |-> "Ok", val |-> v]

\* types.rs OkvsKey::hash_to_index: usize % range panics on range 0
hash_to_index(key, range) ==
    IF range = 0 THEN Panic ELSE Ret(Blake2b8[key] % range)

\* types.rs OkvsKey::hash_to_band: v[0] |= 1 panics on the empty vector,
\* U256::from_little_endian on more than 32 bytes
hash_to_band(key, band_width) ==
    IF band_width \div 8 = 0 \/ 8 * (band_width \div 8) > U256_BITS
    THEN Panic
    ELSE Ret(hash(key, band_width \div 8) \cup {0})

----------------------------------------------------------------------------
(* RbOkvs *)

NoOkvs == [columns |-> -1, band_width |-> -1]

\* A column count that rounds (1 + EPSILON) * kv_count up where the cast of
\* RbOkvs::new rounds it down
ColumnsCeil(kv_count) == (EpsNum * kv_count + EpsDen - 1) \div EpsDen

\* okvs.rs RbOkvs::new: ((1.0 + EPSILON) * kv_count as f64) as usize. The
\* cast truncates; the f64 product of 1.1 and n < 10^5 truncates to
\* 11n div 10.
Columns(kv_count) == (EpsNum * kv_count) \div EpsDen

\* ((LAMBDA as f64 + 15.21) / 0.2691) as usize
BandWidthLambda == ((Lambda * 100 + 1521) * 100) \div 2691

\* A constructor that takes the smaller of the two widths where RbOkvs::new
\* compares the first with columns
RbOkvs_new_min(kv_count) ==
    LET columns == Columns(kv_count)
        band_width == BandWidthLambda
        capped == (columns * 80) \div 100
    IN  [columns |-> columns,
         band_width |-> IF band_width < capped THEN band_width ELSE capped]

RbOkvs_new(kv_count) ==
    LET columns == Columns(kv_count)
        band_width == BandWidthLambda
    IN  [columns |-> columns,
         band_width |-> IF band_width < columns
                        THEN band_width
                        ELSE (columns * 80) \div 100]

\* the missing utils.rs first_one_index: the index of the lowest set bit,
\* 256 for an all-zero band
first_one_index(band) == trailing_zeros(band)

\* okvs.rs create_sorted_matrix. input is a sequence of [key, value]; rows
\* are numbered from 0 as in the source. The result is the matrix (bands),
\* start_ids and y in the order of the stable sort by first-one column.
RowIds(input) == 0 .. (Len(input) - 1)

create_sorted_matrix(self, input) ==
    LET band == Table([i \in RowIds(input) |->
                    hash_to_band(input[i + 1].key, self.band_width)])
        start == Table([i \in RowIds(input) |->
                     hash_to_index(input[i + 1].key,
                                   self.columns - self.band_width)])
        first_one_id == Table([i \in RowIds(input) |->
                            start[i].val + first_one_index(band[i].val)])
        \* the rank of row i under the stable sort_by on first_one_id
        rank == Table([i \in RowIds(input) |->
                    Cardinality({j \in RowIds(input) :
                        \/ first_one_id[j] < first_one_id[i]
                        \/ first_one_id[j] = first_one_id[i] /\ j < i})])
        at == Table([k \in RowIds(input) |->
                  CHOOSE i \in RowIds(input) : rank[i] = k])
    IN  IF \E i \in RowIds(input) :
              band[i].tag = "Panic" \/ start[i].tag = "Panic"
        THEN Panic
        ELSE IF \E i \in RowIds(input) :
                  first_one_index(band[i].val) = U256_BITS
        THEN [tag |-> "ZeroRow",
              row |-> SetMin({i \in RowIds(input) :
                          first_one_index(band[i].val) = U256_BITS})]
        ELSE [tag |-> "Ok",
              matrix |-> Table([k \in RowIds(input) |-> band[at[k]].val]),
              start_ids |-> Table([k \in RowIds(input) |-> start[at[k]].val]),
              y |-> Table([k \in RowIds(input) |-> input[at[k] + 1].value])]

----------------------------------------------------------------------------
(* utils.rs simple_gauss *)

\* An inner loop that starts one row late, at i + 2
VisitedFromSecond(i, rows, start_pos, p) ==
    {k \in (i + 2) .. (rows - 1) :
        \A k2 \in (i + 2) .. k : start_pos[k2] <= p}

\* The rows k the inner loop of row i visits: from i + 1 up to the first
\* row whose start_pos lies beyond the pivot, where it breaks.
Visited(i, rows, start_pos, p) ==
    {k \in (i + 1) .. (rows - 1) :
        \A k2 \in (i + 1) .. k : start_pos[k2] <= p}

\* Forward elimination from row i on. st = [bands, y, pivot, log, tag, row]:
\* tag is "Ok" while no row failed; log collects the calls of xor.
RECURSIVE Forward(_, _, _, _)
Forward(i, rows, start_pos, st) ==
    IF i >= rows THEN st
    ELSE
    LET first_one == trailing_zeros(st.bands[i])
        p == first_one + start_pos[i]
        vis == Visited(i, rows, start_pos, p)
        hit == {k \in vis : bit(st.bands[k], p - start_pos[k])}
        new(k) == xor(st.bands[i], st.bands[k], first_one, p - start_pos[k])
    IN  IF first_one = U256_BITS
        THEN [st EXCEPT !.tag = "ZeroRow", !.row = i]
        ELSE IF \E k \in vis : p - start_pos[k] >= U256_BITS
        THEN [st EXCEPT !.tag = "Panic"]
        ELSE Forward(i + 1, rows, start_pos,
                [st EXCEPT
                    !.pivot = [st.pivot EXCEPT ![i] = p],
                    !.bands = Table([k \in DOMAIN st.bands |->
                                  IF k \in hit THEN new(k) ELSE st.bands[k]]),
                    !.y = Table([k \in DOMAIN st.y |->
                              IF k \in hit THEN BitXor(st.y[k], st.y[i])
                              ELSE st.y[k]]),
                    !.log = st.log \cup
                        {[i |-> i, k |-> k, a |-> st.bands[i],
                          b |-> st.bands[k], start_i |-> start_pos[i],
                          start_k |-> start_pos[k], out |-> new(k)]
                         : k \in hit}])

\* Back substitution from row i down to row 0. x is the solution so far, or
\* Panic once an index was out of range.
RECURSIVE Back(_, _, _, _, _)
Back(i, start_pos, cols, st, x) ==
    IF i < 0 \/ x.tag = "Panic" THEN x
    ELSE IF \/ st.pivot[i] >= cols
            \/ start_pos[i] > cols
            \/ inner_product_panics(st.bands[i], cols - start_pos[i])
    THEN Panic
    ELSE Back(i - 1, start_pos, cols, st,
              Ret([x.val EXCEPT ![st.pivot[i]] =
                      BitXor(inner_product(st.bands[i], x.val, start_pos[i]),
                             st.y[i])]))

\* The result of simple_gauss, with what it computed on the way:
\* [tag, row (the index of a ZeroRow), x, pivot, bands, log].
simple_gauss(y, bands, start_pos, cols) ==
    LET rows == Cardinality(DOMAIN bands)
        st == Forward(0, rows, start_pos,
                  [bands |-> bands, y |-> y,
                   pivot |-> Table([k \in DOMAIN bands |-> 0]),
                   log |-> {}, tag |-> "Ok", row |-> 0])
        x == IF st.tag = "Ok"
             THEN Back(rows - 1, start_pos, cols, st,
                       Ret(Table([c \in 0 .. (cols - 1) |-> ValueDefault])))
             ELSE Panic
    IN  [tag |-> IF st.tag = "Ok" THEN x.tag ELSE st.tag,
         row |-> st.row,
         x |-> IF st.tag = "Ok" /\ x.tag = "Ok" THEN x.val ELSE <<>>,
         pivot |-> st.pivot,
         bands |-> st.bands,
         log |-> st.log]

----------------------------------------------------------------------------
(* The Okvs facade of RbOkvs *)

\* okvs.rs encode
encode(self, input) ==
    LET m == create_sorted_matrix(self, input)
    IN  IF m.tag = "Ok"
        THEN simple_gauss(m.y, m.matrix, m.start_ids, self.columns)
        ELSE [tag |-> m.tag,
              row |-> IF m.tag = "ZeroRow" THEN m.row ELSE 0,
              x |-> <<>>, pivot |-> <<>>, bands |-> <<>>, log |-> {}]

\* okvs.rs decode
decode(self, encoding, key) ==
    LET start == hash_to_index(key, self.columns - self.band_width)
        band == hash_to_band(key, self.band_width)
    IN  IF start.tag = "Panic" \/ band.tag = "Panic" THEN Panic
        ELSE IF \/ start.val > Cardinality(DOMAIN encoding)
                \/ inner_product_panics(band.val,
                       Cardinality(DOMAIN encoding) - start.val)
        THEN Panic
        ELSE Ret(inner_product(band.val, encoding, start.val))

----------------------------------------------------------------------------
(* VhEmm: emm.rs *)

\* emm.rs H_LEN: the label, the 64 bytes of the hex SHA-256 digest
H_LEN == 64
\* the bytes of an AES-GCM authentication tag
TAG_LEN == 16

\* the sample 32-byte keys: 0 is [0u8; 32]
AesKeys == {0, 1}
\* the sample user keys (the u64 keys of an input of setup); NotInserted is
\* a u64 that is never part of an input
UserKeys == {0, 1}
NotInserted == SetMax(UserKeys) + 1

\* The bytes from .. from + len - 1 of a byte string given by its set bits,
\* as a byte string of its own
Slice(s, from, len) ==
    {j - 8 * from : j \in {t \in s : 8 * from <= t /\ t < 8 * (from + len)}}

\* b appended to a byte string a of alen bytes
Concat(a, alen, b) == a \cup {8 * alen + j : j \in b}

\* emm.rs sha256 (SHA-256, an external collaborator): the digest of
\* kf || key as 64 hex characters. The sample digests differ in one byte.
sha256(kf, key) == {8 * (3 * kf + key)}

\* emm.rs create_key: the OkvsKey of Blake2b(h || i), as the sample key it
\* is
create_key(h, i) == ((2 * (SetMin(h) \div 8) + i) % Cardinality(Keys)) + 1

\* The EmmV implementations of emm.rs's tests. An EmmValue is the set bits
\* of its bytes.
V_len(kind) == IF kind = "u64" THEN 8 ELSE 3

\* OKVS_V_SIZE as the tests set it: 80 + EmmValue.len()
OKVS_V_SIZE(kind) == H_LEN + TAG_LEN + V_len(kind)

\* u64 1 and 258; "000" and "001"
EmmValues(kind) ==
    IF kind = "u64" THEN {{0}, {1, 8}}
    ELSE {{4, 5, 12, 13, 20, 21}, {4, 5, 12, 13, 16, 20, 21}}

\* EmmV::encode: u64::to_le_bytes puts bit t of the integer at bit t % 8 of
\* byte t div 8, which is position t of the byte string; String::as_bytes
\* yields the UTF-8 bytes the String consists of
V_encode(kind, v) == v

ByteAt(s, b) ==
    LET w(t) == IF 8 * b + t \in s THEN 2 ^ t ELSE 0
    IN  w(0) + w(1) + w(2) + w(3) + w(4) + w(5) + w(6) + w(7)

\* String::from_utf8 on three bytes
ValidUtf8(s) ==
    LET b0 == ByteAt(s, 0)
        b1 == ByteAt(s, 1)
        b2 == ByteAt(s, 2)
        Ascii(b) == b < 128
        Cont(b) == 128 <= b /\ b <= 191
        Lead2(b) == 194 <= b /\ b <= 223
        Lead3(b, c) ==
            \/ b = 224 /\ 160 <= c /\ c <= 191
            \/ ((225 <= b /\ b <= 236) \/ (238 <= b /\ b <= 239)) /\ Cont(c)
            \/ b = 237 /\ 128 <= c /\ c <= 159
    IN  \/ Ascii(b0) /\ Ascii(b1) /\ Ascii(b2)
        \/ Lead2(b0) /\ Cont(b1) /\ Ascii(b2)
        \/ Ascii(b0) /\ Lead2(b1) /\ Cont(b2)
        \/ Lead3(b0, b1) /\ Cont(b2)

\* EmmV::decode: u64::from_le_bytes of any 8 bytes;
\* String::from_utf8(b).unwrap() panics on bytes that are not UTF-8
V_decode(kind, b) ==
    IF kind = "u64" \/ ValidUtf8(b) THEN Ret(b) ELSE Panic

\* AES-256-GCM under the constant zero nonce (an external collaborator):
\* the CTR key stream of a key, and the tag of a ciphertext
KeyStream(ke) ==
    {8 * (5 + ke) + 1, 8 * H_LEN + 7, 8 * H_LEN + 9 + ke,
     8 * (H_LEN + 9) + ke}

GcmTag(ke, ct) ==
    {(7 * ke + 3 * Cardinality(ct)
        + (IF ct = {} THEN 0 ELSE SetMax(ct))) % (8 * TAG_LEN)}

\* Aes256Gcm::encrypt of len bytes: ciphertext || tag, len + 16 bytes
Aes256Gcm_encrypt(ke, pt, len) ==
    LET ct == BitXor(pt, {j \in KeyStream(ke) : j < 8 * len})
    IN  Concat(ct, len, GcmTag(ke, ct))

\* whether cell, of size bytes, is ciphertext || tag with the tag of the
\* ciphertext: what Aes256Gcm::decrypt verifies
Aes256Gcm_valid(ke, cell, size) ==
    Slice(cell, size - TAG_LEN, TAG_LEN)
        = GcmTag(ke, Slice(cell, 0, size - TAG_LEN))

\* emm.rs ClientState::default (derived) and ClientState::new_random
ClientState_default == [kf |-> 0, ke |-> 0]
ClientState_new_random(rng) == [kf |-> rng[1], ke |-> rng[2]]

\* emm.rs encode_value: copy_from_slice panics unless the ciphertext has
\* OKVS_V_SIZE bytes
encode_value(kind, ke, h, v) ==
    IF H_LEN + V_len(kind) + TAG_LEN # OKVS_V_SIZE(kind) THEN Panic
    ELSE Ret(Aes256Gcm_encrypt(ke, Concat(h, H_LEN, V_encode(kind, v)),
                               H_LEN + V_len(kind)))

\* emm.rs decode_value: the cell is encrypted once more, its tag included,
\* then cut into label and value, and the value decoded
decode_value(kind, ke, v) ==
    LET decoded == Aes256Gcm_encrypt(ke, v, OKVS_V_SIZE(kind))
        y == V_decode(kind, Slice(decoded, H_LEN, V_len(kind)))
    IN  IF y.tag = "Panic" THEN Panic
        ELSE [tag |-> "Ok", dh |-> Slice(decoded, 0, H_LEN), y |-> y.val]

\* The OKVS input setup builds from its input, a sequence of
\* [key, values]: one pair per value, in input order
RECURSIVE new_input(_, _, _)
new_input(kind, state, input) ==
    IF input = <<>> THEN <<>>
    ELSE LET h == sha256(state.kf, Head(input).key)
             vs == Head(input).values
         IN  [j \in 1 .. Len(vs) |->
                 [key |-> create_key(h, j - 1),
                  value |-> encode_value(kind, state.ke, h, vs[j]).val]]
             \o new_input(kind, state, Tail(input))

\* emm.rs VhEmm::setup: [tag, row, emm, client_state] and what encode
\* computed
setup(self, kind, input) ==
    LET client_state == ClientState_default
        sealed == new_input(kind, client_state, input)
        r == encode(self, sealed)
    IN  IF \E e \in DOMAIN input : \E j \in DOMAIN input[e].values :
              encode_value(kind, client_state.ke,
                           sha256(client_state.kf, input[e].key),
                           input[e].values[j]).tag = "Panic"
        THEN [tag |-> "Panic", client_state |-> client_state,
              new_input |-> <<>>, r |-> encode(self, <<>>)]
        ELSE [tag |-> r.tag, client_state |-> client_state,
              new_input |-> sealed, r |-> r]

\* emm.rs VhEmm::query: Ok(values) | Decode(slot) | Panic
query(self, kind, key, v_len, client_state, emm) ==
    LET h == sha256(client_state.kf, key)
        slots == 0 .. (v_len - 1)
        x == Table([i \in slots |-> decode(self, emm, create_key(h, i))])
        d == Table([i \in slots |->
                 IF x[i].tag = "Ok"
                 THEN decode_value(kind, client_state.ke, x[i].val)
                 ELSE Panic])
        stops == {i \in slots : d[i].tag = "Panic" \/ d[i].dh # h}
    IN  IF \E i \in slots : x[i].tag = "Panic" THEN Panic
        ELSE IF stops = {}
        THEN [tag |-> "Ok", values |-> [i \in 1 .. v_len |-> d[i - 1].y]]
        ELSE IF d[SetMin(stops)].tag = "Panic" THEN Panic
        ELSE [tag |-> "Decode", slot |-> SetMin(stops)]

\* The slots on which the client loop of query invokes V::decode: it calls
\* decode_value, which decodes the value, on slot after slot until a call
\* panics or the label it returned differs from h
query_decoded(self, kind, key, v_len, client_state, emm) ==
    LET h == sha256(client_state.kf, key)
        slots == 0 .. (v_len - 1)
        x == Table([i \in slots |-> decode(self, emm, create_key(h, i))])
        d == Table([i \in slots |->
                 IF x[i].tag = "Ok"
                 THEN decode_value(kind, client_state.ke, x[i].val)
                 ELSE Panic])
    IN  IF \E i \in slots : x[i].tag = "Panic" THEN {}
        ELSE {i \in slots :
                 \A j \in 0 .. (i - 1) : d[j].tag = "Ok" /\ d[j].dh = h}

----------------------------------------------------------------------------
(* The state machine: a caller that builds an RbOkvs and either encodes a  *)
(* list of pairs with it and decodes keys from the encoding, or wraps it   *)
(* in a VhEmm, sets the multi-map up and queries it. The encoding of the   *)
(* multi-map is held by the server, which may alter it.                    *)

\* the kv_counts of the sample instances; 1 and 4 are those for which an
\* input of kv_count pairs is within MaxPairs
KvCounts == {0, 1, 4, 5, 15, 20, 248}
EmmKvCounts == {15, 248}

\* The value of the pair at position p (from 0) of an input: the unit
\* vector of bit p. encode is linear in the values over GF(2), so x[c] lists
\* exactly the input values that are summed into column c.
ValueAt(p) == {p}

Inputs ==
    UNION {[1 .. n -> Keys] : n \in 0 .. MaxPairs}

PairsOf(ks) == [p \in DOMAIN ks |-> [key |-> ks[p], value |-> ValueAt(p - 1)]]

ValueLists(kind) ==
    UNION {[1 .. m -> EmmValues(kind)] : m \in 0 .. MaxSlots}

EmmInputs(kind) ==
    UNION {[1 .. n -> [key : UserKeys, values : ValueLists(kind)]]
           : n \in 0 .. MaxEntries}

\* the bits the server flips in a cell: the first of the label; the first
\* of the tag; the first of the label with the top bit of the first byte of
\* the value
TamperMasks(kind) ==
    {{0}, {8 * (OKVS_V_SIZE(kind) - TAG_LEN)}, {0, 8 * H_LEN + 7}}

NoResult == [tag |-> "None"]

InitOkvs ==
    /\ kv_given = -1
    /\ okvs = NoOkvs
    /\ pairs = <<>>
    /\ enc = NoResult
    /\ xorlog = {}
    /\ dec = NoResult
    /\ probe = NoResult
    /\ emmin = <<>>
    /\ cs = NoResult
    /\ server = <<>>
    /\ qry = NoResult

Init ==
    /\ InitOkvs
    /\ osrng = <<0, 0>>
    /\ vkind = "u64"

InitEmm ==
    /\ InitOkvs
    /\ osrng \in AesKeys \X AesKeys
    /\ vkind \in {"u64", "str"}

NewOkvs(counts) ==
    /\ okvs = NoOkvs
    /\ \E n \in counts :
        /\ kv_given' = n
        /\ okvs' = RbOkvs_new(n)
    /\ UNCHANGED <<pairs, enc, xorlog, dec, probe, emmvars>>

\* One encode per instance: encode reads self and its input only, so a
\* second call behaves as the first call of another run does.
Encode ==
    /\ okvs # NoOkvs
    /\ enc = NoResult
    /\ \E ks \in Inputs :
        LET r == encode(okvs, PairsOf(ks))
        IN  /\ pairs' = PairsOf(ks)
            /\ enc' = [tag |-> r.tag, row |-> r.row, x |-> r.x,
                       pivot |-> r.pivot, bands |-> r.bands]
            /\ xorlog' = r.log
    /\ dec' = NoResult
    /\ UNCHANGED <<kv_given, okvs, probe, emmvars>>

Decode ==
    /\ enc.tag = "Ok"
    /\ \E key \in Keys :
        dec' = [tag |-> "Decoded", key |-> key,
                out |-> decode(okvs, enc.x, key)]
    /\ UNCHANGED <<kv_given, okvs, pairs, enc, xorlog, probe, emmvars>>

\* VhEmm::new(okvs).setup(input); the server receives the encoding
Setup ==
    /\ okvs # NoOkvs
    /\ enc = NoResult
    /\ \E input \in EmmInputs(vkind) :
        LET r == setup(okvs, vkind, input)
        IN  /\ emmin' = input
            /\ pairs' = r.new_input
            /\ enc' = [tag |-> r.tag, row |-> r.r.row, x |-> r.r.x,
                       pivot |-> r.r.pivot, bands |-> r.r.bands]
            /\ xorlog' = r.r.log
            /\ cs' = IF r.tag = "Ok" THEN r.client_state ELSE NoResult
            /\ server' = IF r.tag = "Ok" THEN r.r.x ELSE <<>>
    /\ UNCHANGED <<kv_given, okvs, dec, probe, osrng, vkind, qry>>

\* The server flips bits of one non-zero cell of the encoding it holds
Tamper ==
    /\ enc.tag = "Ok"
    /\ cs # NoResult
    /\ server = enc.x
    /\ qry = NoResult
    /\ \E c \in {col \in DOMAIN server : server[col] # {}} :
       \E mask \in TamperMasks(vkind) :
          server' = [server EXCEPT ![c] = BitXor(@, mask)]
    /\ UNCHANGED <<okvsvars, probe, osrng, vkind, emmin, cs, qry>>

\* query(key, v_len, client_state, emm) on what the server holds; one query
\* per run, as query reads its arguments only
Query ==
    /\ enc.tag = "Ok"
    /\ cs # NoResult
    /\ qry = NoResult
    /\ \E key \in UserKeys \cup {NotInserted} : \E v_len \in 0 .. MaxSlots :
        qry' = [tag |-> "Queried", key |-> key, v_len |-> v_len,
                out |-> query(okvs, vkind, key, v_len, cs, server)]
    /\ UNCHANGED <<okvsvars, probe, osrng, vkind, emmin, cs, server>>

\* hash_to_band called on its own, for every band width a U256 can hold
HashToBand ==
    /\ probe = NoResult
    /\ \E key \in Keys : \E w \in 1 .. U256_BITS :
        probe' = [tag |-> "Band", key |-> key, band_width |-> w,
                  out |-> hash_to_band(key, w)]
    /\ UNCHANGED <<okvsvars, emmvars>>

Next ==
    \/ NewOkvs(KvCounts)
    \/ Encode
    \/ Decode

Spec == Init /\ [][Next]_vars

\* RbOkvs::new for every kv_given up to MaxKvCount
NextNew == NewOkvs(0 .. MaxKvCount)

SpecNew == Init /\ [][NextNew]_vars

NextHash == HashToBand

SpecHash == Init /\ [][NextHash]_vars

NextEmm ==
    \/ NewOkvs(EmmKvCounts)
    \/ Setup
    \/ Tamper
    \/ Query

SpecEmm == InitEmm /\ [][NextEmm]_vars

----------------------------------------------------------------------------
(* Properties of RbOkvs: encode, decode, simple_gauss, xor *)

\* the keys of a list of pairs are pairwise distinct
Distinct(ps) == \A p, q \in DOMAIN ps : p # q => ps[p].key # ps[q].key

\* C1: OKVS round trip. Whenever encode returned Ok(encoding) for a list of
\* pairs with distinct keys, a decode of the key of an input pair (k, v)
\* returns v.
C1_RoundTrip ==
    (dec.tag = "Decoded" /\ enc.tag = "Ok" /\ Distinct(pairs)) =>
        \A p \in DOMAIN pairs :
            pairs[p].key = dec.key => dec.out = Ret(pairs[p].value)

\* The GF(2) sum of the rows a (pivot row i) and b (row k) of a logged call
\* of xor, taken column by column and written in row k's frame
ExactSum(e) ==
    LET A == {e.start_i + t : t \in e.a}
        B == {e.start_k + t : t \in e.b}
    IN  {c - e.start_k : c \in BitXor(A, B)}

\* C10: aligned XOR is exact in the solver. Every band[k] that forward
\* elimination wrote by combining pivot row i into row k is the GF(2) sum
\* of the two rows in row k's frame: no set bit of either row is lost.
C10_XorExact == \A e \in xorlog : e.out = ExactSum(e)

\* The columns of row k of a sorted matrix m, and the GF(2) sum of the rows
\* of a set S
RowCols(m, k) == {m.start_ids[k] + t : t \in m.matrix[k]}

SumOfRows(m, S) ==
    {c \in UNION {RowCols(m, j) : j \in S} :
        Cardinality({j \in S : c \in RowCols(m, j)}) % 2 = 1}

\* the rows of m that are GF(2) linear combinations of the rows before them
Dependent(m) ==
    {i \in DOMAIN m.matrix :
        \E S \in SUBSET (0 .. (i - 1)) : SumOfRows(m, S) = RowCols(m, i)}

\* C5: once the rows are built and sorted, encode returns ZeroRow(i) exactly
\* when row i is the first row that is a GF(2) linear combination of the
\* rows before it, and returns a complete encoding in every other case.
C5_ZeroRowExact ==
    enc.tag # "None" =>
        LET m == create_sorted_matrix(okvs, pairs)
        IN  m.tag = "Ok" =>
                IF Dependent(m) = {}
                THEN enc.tag = "Ok" /\ DOMAIN enc.x = 0 .. (okvs.columns - 1)
                ELSE enc.tag = "ZeroRow" /\ enc.row = SetMin(Dependent(m))

\* C7, as the specification states it: a successful encode with
\* RbOkvs::new(n) returns the ceiling of 11n / 10 values.
C7_EncodingLengthCeil ==
    enc.tag = "Ok" => Cardinality(DOMAIN enc.x) = (11 * kv_given + 9) \div 10

\* C7, amended: a successful encode with RbOkvs::new(n) returns exactly cols
\* values, cols the floor of 11n / 10, numbered 0 .. cols - 1.
C7_EncodingLength ==
    enc.tag = "Ok" =>
        /\ Cardinality(DOMAIN enc.x) = (11 * kv_given) \div 10
        /\ DOMAIN enc.x = 0 .. ((11 * kv_given) \div 10 - 1)

\* C7: an encode of at least one pair with RbOkvs::new(15) succeeded, with
\* 16 values where the ceiling is 17
C7_EncodedFifteen ==
    /\ enc.tag = "Ok"
    /\ kv_given = 15
    /\ pairs # <<>>
    /\ Cardinality(DOMAIN enc.x) = 16

\* C8, as the specification states it: w is the smaller of W, the ceiling of
\* (LAMBDA + 15.21) / 0.2691, and the floor of 0.8 * cols; so w never
\* exceeds the floor of 0.8 * cols.
C8_BandWidthMin ==
    okvs # NoOkvs =>
        LET W == ((Lambda * 100 + 1521) * 100 + 2690) \div 2691
            capped == (80 * okvs.columns) \div 100
        IN  /\ okvs.band_width = IF W < capped THEN W ELSE capped
            /\ okvs.band_width <= capped

\* C8, amended: w is 205, the floor of (LAMBDA + 15.21) / 0.2691, when 205
\* is less than cols, and the floor of 0.8 * cols otherwise; w exceeds the
\* floor of 0.8 * cols exactly when cols is one of 206 .. 256.
C8_BandWidth ==
    okvs # NoOkvs =>
        LET capped == (80 * okvs.columns) \div 100
        IN  /\ okvs.columns = (11 * kv_given) \div 10
            /\ okvs.band_width = IF 205 < okvs.columns THEN 205 ELSE capped
            /\ (okvs.band_width > capped) <=> (okvs.columns \in 206 .. 256)

\* C8: RbOkvs::new(188) chose cols = 206, w = 205, above the floor of
\* 0.8 * 206
C8_WideBand ==
    /\ kv_given = 188
    /\ okvs.columns = 206
    /\ okvs.band_width = 205
    /\ okvs.band_width > (80 * okvs.columns) \div 100

\* C9: for 1 <= w <= 256, hash_to_band(key, w) returns the first w bits of
\* the digest of the key (ceil(w / 8) bytes cut to w bits) with bit 0 set:
\* no bit at w or above, and a digest bit at each position 1 .. w - 1.
C9_BandOfWidth ==
    probe.tag = "Band" =>
        LET w == probe.band_width
            cut == {t \in hash(probe.key, (w + 7) \div 8) : t < w}
        IN  /\ probe.out.tag = "Ok"
            /\ 0 \in probe.out.val
            /\ \A t \in probe.out.val : t < w
            /\ probe.out.val = cut \cup {0}

\* the offsets of the sorted rows of the last encode
StartIds == create_sorted_matrix(okvs, pairs).start_ids

\* C11, as the specification states it: after a successful forward
\* elimination the pivots increase strictly with the row index and lie in
\* [0, cols), also when rows share an offset.
C11_PivotsIncrease ==
    (enc.tag = "Ok" /\ pairs # <<>>) =>
        /\ \A i, j \in DOMAIN enc.pivot :
               i < j => enc.pivot[i] < enc.pivot[j]
        /\ \A i \in DOMAIN enc.pivot :
               0 <= enc.pivot[i] /\ enc.pivot[i] < okvs.columns

\* C11, amended: after a successful forward elimination the pivots are
\* pairwise distinct, pivot[i] lies in [start[i], cols), and the pivots
\* increase strictly (pivot[i] = start[i]) when the offsets of the rows are
\* pairwise distinct.
C11_PivotsDistinct ==
    (enc.tag = "Ok" /\ pairs # <<>>) =>
        /\ \A i, j \in DOMAIN enc.pivot :
               i # j => enc.pivot[i] # enc.pivot[j]
        /\ \A i \in DOMAIN enc.pivot :
               StartIds[i] <= enc.pivot[i] /\ enc.pivot[i] < okvs.columns
        /\ (\A i, j \in DOMAIN enc.pivot : i # j => StartIds[i] # StartIds[j])
               => \A i \in DOMAIN enc.pivot : enc.pivot[i] = StartIds[i]

\* C11: an encode succeeded on rows of which two share an offset, and a
\* later row has the smaller pivot
C11_PivotFallsBack ==
    /\ enc.tag = "Ok"
    /\ \E i, j \in DOMAIN enc.pivot :
          i < j /\ StartIds[i] = StartIds[j]
    /\ \E i, j \in DOMAIN enc.pivot :
          i < j /\ enc.pivot[i] > enc.pivot[j]

\* C13: index and arithmetic safety. With RbOkvs::new(n), n >= 1, and an
\* encode of n pairs, the offset range cols - w is at least 1, hash_to_band
\* has at least one byte, and neither encode nor a decode of any key
\* panics (no division by zero, no index out of bounds).
C13_IndexSafety ==
    (kv_given >= 1 /\ Len(pairs) = kv_given /\ enc.tag # "None") =>
        /\ okvs.columns - okvs.band_width >= 1
        /\ okvs.band_width \div 8 >= 1
        /\ enc.tag # "Panic"
        /\ dec.tag = "Decoded" => dec.out.tag # "Panic"

----------------------------------------------------------------------------
(* Properties of VhEmm: setup, query *)

\* the cell the server's encoding yields for slot i of the last query
SlotCell(i) == decode(okvs, server, create_key(sha256(cs.kf, qry.key), i))

\* the first H_LEN bytes of what AES-CTR under k_E makes of that cell
SlotLabel(i) ==
    Slice(Aes256Gcm_encrypt(cs.ke, SlotCell(i).val, OKVS_V_SIZE(vkind)),
          0, H_LEN)

\* C2: EMM round trip. On the encoding as setup returned it, a query of an
\* inserted key k, with v_len the number m of its values, returns Ok with
\* exactly the m values of k in their order.
C2_EmmRoundTrip ==
    (qry.tag = "Queried" /\ server = enc.x) =>
        \A e \in DOMAIN emmin :
            (emmin[e].key = qry.key /\ Len(emmin[e].values) = qry.v_len) =>
                qry.out = [tag |-> "Ok", values |-> emmin[e].values]

\* C3: no partial output. A query returns Ok with v_len values exactly when
\* the label of every slot 0 .. v_len - 1 equals h = H(k_F || key);
\* otherwise it returns Decode(i), i the first slot whose label differs.
C3_NoPartialOutput ==
    qry.tag = "Queried" =>
        LET h == sha256(cs.kf, qry.key)
            differ == {i \in 0 .. (qry.v_len - 1) : SlotLabel(i) # h}
        IN  IF differ = {}
            THEN qry.out.tag = "Ok" /\ Len(qry.out.values) = qry.v_len
            ELSE qry.out = [tag |-> "Decode", slot |-> SetMin(differ)]

\* C4: a query accepts a slot only if its cell is a valid AEAD ciphertext
\* under k_E (the tag verifies): whenever a query returned Ok, the cell of
\* every slot carries the tag of its ciphertext body.
C4_TagVerified ==
    (qry.tag = "Queried" /\ qry.out.tag = "Ok") =>
        \A i \in 0 .. (qry.v_len - 1) :
            Aes256Gcm_valid(cs.ke, SlotCell(i).val, OKVS_V_SIZE(vkind))

\* the bytes of slot i of the last query that V::decode would be given
SlotValue(i) ==
    Slice(Aes256Gcm_encrypt(cs.ke, SlotCell(i).val, OKVS_V_SIZE(vkind)),
          H_LEN, V_len(vkind))

\* C12: query applies V::decode to a slot only after it found the label of
\* that slot equal to h. So V::decode is never invoked on a slot whose label
\* differs, and when the slots before the first such slot i decode, the
\* query returns Decode(i) whatever V::decode makes of the bytes of slot i.
C12_DecodeAfterCheck ==
    qry.tag = "Queried" =>
        LET h == sha256(cs.kf, qry.key)
            differ == {i \in 0 .. (qry.v_len - 1) : SlotLabel(i) # h}
        IN  /\ \A i \in query_decoded(okvs, vkind, qry.key, qry.v_len,
                                       cs, server) : SlotLabel(i) = h
            /\ (/\ differ # {}
                /\ \A j \in 0 .. (SetMin(differ) - 1) :
                       V_decode(vkind, SlotValue(j)).tag = "Ok")
                   => qry.out = [tag |-> "Decode", slot |-> SetMin(differ)]

\* C6: the ClientState setup returns holds the two keys drawn from OsRng
\* for this call, not a fixed constant.
C6_FreshKeys == cs # NoResult => cs = ClientState_new_random(osrng)

====
